---- MODULE Spec2Model ----
(***************************************************************************)
(* Model of the beacon commercial-register synchroniser: the merge of     *)
(* entity changes into the company store (DailySyncWorker                  *)
(* ._update_single_company over CompanyService) and the per-date sync      *)
(* orchestration over the sync_history table (DailySyncWorker.run_* over   *)
(* SyncService, and the manual trigger of routers/sync_history.py).        *)
(*                                                                         *)
(* Modelling conventions.                                                  *)
(*  - Python's None is the string "None"; an absent dict key is "unset".   *)
(*  - A raised exception is a value: operators return a record whose exc   *)
(*    field names the exception class ("none" when nothing was raised).    *)
(*  - The ORM session is taken to deliver the rows its query selects:      *)
(*    execute() evaluates the WHERE clause, scalar_one_or_none() yields    *)
(*    the single selected row, None for no row, and raises                 *)
(*    MultipleResultsFound (a SQLAlchemyError) for more than one row;      *)
(*    the UPDATE built from keyword arguments stores them under their names.    *)
(*  - Wall-clock time is a slot counter; a calendar day is SlotsPerDay     *)
(*    slots, the last of which is the final second 23:59:59 of the day.    *)
(*    The host clock is UTC, so datetime.now() and datetime.utcnow()       *)
(*    agree.                                                               *)
(*  - Callers interleave at the accesses to the tables. The calls of a run  *)
(*    that touch no table (get_available_dates, download_daily_data,       *)
(*    parse_company_changes) belong to the step of the access before them. *)
(*  - The activity_logs table is write-only for the operations modelled    *)
(*    here and is left out of the state.                                   *)
(***************************************************************************)
EXTENDS Integers, Sequences, FiniteSets, TLC

\* ------------------------------------------------------------------ bounds
MaxApplied == 2
MaxDeeds == 2
MaxLoopTime == 2
MaxCount == 1
MaxRecords == 3
MaxUpload == 2
MaxClock == 3
MaxDay == 1
SlotsPerDay == 2

\* --------------------------------------------------------- program values
None == "None"

\* the one date get_resource_by_date knows a resource for ("2025-08-14"),
\* as a day index of the model clock
KnownDate == 1

UIDs == {"u1", "u2"}

\* columns of Company written by the merge patch (enrichment_data keys)
EnrichFields == {"name", "manager", "address", "legal_form", "phone", "email", "website"}

\* keys of a company dict built by _extract_company_data, website included
\* (set by _extract_subdeed_data when a URL contact is present)
CompanyFields == {"uid", "status"} \cup EnrichFields

VARIABLES
  company_table,   \* companies table: a function from the stored uids to their rows
  applied,         \* history of merges applied back to back: <<[company, ret, is_new, before, after]>>
  sync_history,    \* sync_history table: sequence of rows, row id = index
  now,             \* wall clock, in slots
  proc,            \* per invocation: position and locals of the running coroutine
  payload,         \* parser on its own: the daily_data handed to parse_company_changes
  deed_nodes,      \* parser on its own: the deed nodes of the payload, in payload order
  parsed,          \* parser on its own: the list parse_company_changes returned
  cache_service,   \* the CacheService instance: redis_client, _fallback_cache, _fallback_timestamps
  redis,           \* the primary tier: whether it answers, and the keys it holds
  loop_time,       \* asyncio.get_event_loop().time(), in clock units
  last,            \* the last cache call: operation, key, result, exception, time
  sets,            \* per key, the last set call not followed by delete or increment
  req,             \* per request of the API: position and locals of the CompanyService call
  enrichment_cache, \* enrichment.py _enrichment_cache: uid -> (enrichment data, timestamp)
  datetime_now     \* datetime.now() of the API process, in units of CACHE_TTL hours

syncVars == <<company_table, applied, sync_history, now, proc>>
parserVars == <<payload, deed_nodes, parsed>>
cacheVars == <<cache_service, redis, loop_time, last, sets>>
serviceVars == <<req>>
enrichVars == <<enrichment_cache, datetime_now>>
vars == <<syncVars, parserVars, cacheVars, serviceVars, enrichVars>>

\* what the operations on the store and on sync_history leave alone
otherVars == <<parserVars, cacheVars, serviceVars, enrichVars>>

\* ----------------------------------------------------------- merge engine

\* a company dict with every optional key None
BlankCompany(uid, name) ==
  [f \in CompanyFields |->
     IF f = "uid" THEN uid ELSE IF f = "name" THEN name ELSE None]

\* Python truthiness of an optional string
Truthy(v) == v # None /\ v # ""

\* CacheService.get as reached through CompanyService.cache: the worker
\* builds CompanyService(db, None), so the attribute access on None raises
cache_get(cache, key) ==
  IF cache = None THEN [exc |-> "AttributeError", value |-> None]
  ELSE [exc |-> "none", value |-> None]

\* CompanyService.get_company: cache lookup first, then the table; an absent
\* row raises CompanyNotFound (it never returns None). value is the set
\* holding the returned row.
get_company(cache, table, uid) ==
  LET cached == cache_get(cache, uid) IN
  IF cached.exc # "none" THEN [exc |-> cached.exc, value |-> {}]
  ELSE IF uid \notin DOMAIN table
       THEN [exc |-> "CompanyNotFound", value |-> {}]
       ELSE [exc |-> "none", value |-> {table[uid]}]

\* CompanyService.create_company: INSERT of a Company built from the dict; a
\* duplicate primary key raises DuplicateCompanyError and an unknown keyword
\* (is_new) a TypeError
create_company(table, company, is_new) ==
  IF is_new # "unset" THEN [exc |-> "TypeError", table |-> table]
  ELSE IF company.uid \in DOMAIN table
       THEN [exc |-> "DuplicateCompanyError", table |-> table]
       ELSE [exc |-> "none", table |-> (company.uid :> company) @@ table]

\* CompanyService.update_company_enrichment: UPDATE setting the patch columns
update_company_enrichment(cache, table, uid, enrichment_data) ==
  LET got == get_company(cache, table, uid) IN
  IF got.exc # "none" THEN [exc |-> got.exc, table |-> table]
  ELSE [exc |-> "none",
        table |-> [table EXCEPT ![uid] =
                     [f \in CompanyFields |->
                        IF f \in DOMAIN enrichment_data THEN enrichment_data[f]
                        ELSE table[uid][f]]]]

\* the methods CompanyService defines that the worker may call
CompanyServiceMethods == {"get_company", "create_company", "update_company_enrichment"}

\* company_service.enrich_company(uid, enrichment_data): attribute lookup on
\* CompanyService, which defines no enrich_company
enrich_company(cache, table, uid, enrichment_data) ==
  IF "enrich_company" \in CompanyServiceMethods
  THEN update_company_enrichment(cache, table, uid, enrichment_data)
  ELSE [exc |-> "AttributeError", table |-> table]

\* the non-None part of the patch built from the incoming change
EnrichmentData(company) ==
  LET keys == {f \in EnrichFields : company[f] # None} IN
  [f \in keys |-> company[f]]

\* _update_single_company removing the row of the change's identifier
UpdateSingleCompany_deleting(table, company, is_new) ==
  [ret |-> TRUE, table |-> [u \in DOMAIN table \ {company.uid} |-> table[u]],
   is_new |-> "False", exc |-> "none"]

\* _update_single_company writing on every call: it stores the change when
\* the identifier is absent and removes the row when it is stored
UpdateSingleCompany_toggling(table, company, is_new) ==
  [ret |-> TRUE,
   table |-> IF company.uid \in DOMAIN table
             THEN [u \in DOMAIN table \ {company.uid} |-> table[u]]
             ELSE (company.uid :> company) @@ table,
   is_new |-> "False", exc |-> "none"]

\* DailySyncWorker._update_single_company: returns the boolean result, the
\* table afterwards and the is_new key of the (mutated) company dict; exc is
\* the exception its except clause caught and logged
UpdateSingleCompany(table, company, is_new) ==
  LET existing == get_company(None, table, company.uid) IN
  IF existing.exc # "none"
  THEN [ret |-> FALSE, table |-> table, is_new |-> is_new, exc |-> existing.exc]
  ELSE IF existing.value # {}
  THEN LET enrichment_data == EnrichmentData(company) IN
       IF DOMAIN enrichment_data # {}
       THEN LET r == enrich_company(None, table, company.uid, enrichment_data) IN
            IF r.exc # "none"
            THEN [ret |-> FALSE, table |-> table, is_new |-> is_new, exc |-> r.exc]
            ELSE [ret |-> TRUE, table |-> r.table, is_new |-> "False", exc |-> "none"]
       ELSE [ret |-> FALSE, table |-> table, is_new |-> is_new, exc |-> "none"]
  ELSE IF Truthy(company.name) /\ Truthy(company.uid)
  THEN LET r == create_company(table, company, is_new) IN
       IF r.exc # "none"
       THEN [ret |-> FALSE, table |-> table, is_new |-> is_new, exc |-> r.exc]
       ELSE [ret |-> TRUE, table |-> r.table, is_new |-> "True", exc |-> "none"]
  ELSE [ret |-> FALSE, table |-> table, is_new |-> is_new, exc |-> "none"]

\* the merge result in the vocabulary of the merge contract
Outcome(ret, is_new) ==
  IF ret /\ is_new = "True" THEN "Created"
  ELSE IF ret THEN "Updated"
  ELSE "Skipped"

\* CompanyService.import_companies over one uploaded row (import_data has
\* checked that uid, name, manager and address are present): an existing
\* uid is overwritten with every column of the row, a new one is inserted
import_companies(table, row) ==
  IF row.uid \in DOMAIN table
  THEN [table EXCEPT ![row.uid] = row]
  ELSE (row.uid :> row) @@ table

\* the row stored for uid, as a set (empty when the uid is not stored)
Stored(table, uid) == IF uid \in DOMAIN table THEN {table[uid]} ELSE {}

\* ------------------------------------------------------- inputs of the model
Names == {"n1", "n2"}
Phones == {"555"}
Emails == {"a@b.com"}

\* entity changes as the parser hands them to the merge
Changes ==
  { [BlankCompany(u, n) EXCEPT !["phone"] = ph, !["email"] = em] :
      u \in UIDs, n \in Names, ph \in Phones \cup {None}, em \in Emails \cup {None} }

\* rows of an uploaded import file
ImportRows ==
  { [BlankCompany(u, "n1") EXCEPT !["phone"] = ph, !["email"] = em,
                                  !["manager"] = "m1", !["address"] = "a1"] :
      u \in UIDs, ph \in Phones \cup {None}, em \in Emails \cup {None} }

\* ------------------------------------------------------------ sync history

Dates == 0..MaxDay
MaxNow == (MaxDay + 1) * SlotsPerDay - 1

\* datetime.now().strftime("%Y-%m-%d"): the calendar day of a clock value
DateOf(t) == t \div SlotsPerDay

\* the started_at filter shared by is_date_synced and update_sync_record:
\* started_at >= date 00:00:00 and started_at < date 23:59:59
InWindow(started_at, date) ==
  /\ started_at >= date * SlotsPerDay
  /\ started_at < date * SlotsPerDay + (SlotsPerDay - 1)

\* is_date_synced with the status test on failed rows
is_date_synced_failed(table, date) ==
  LET rows == { i \in 1..Len(table) :
                  /\ table[i].sync_type = "daily"
                  /\ table[i].status = "failed"
                  /\ InWindow(table[i].started_at, date) } IN
  IF Cardinality(rows) > 1 THEN FALSE ELSE rows # {}

\* SyncService.is_date_synced: a daily, completed row started inside the
\* date; more than one selected row raises MultipleResultsFound inside
\* scalar_one_or_none, which the except clause turns into False
is_date_synced(table, date) ==
  LET rows == { i \in 1..Len(table) :
                  /\ table[i].sync_type = "daily"
                  /\ table[i].status = "completed"
                  /\ InWindow(table[i].started_at, date) } IN
  IF Cardinality(rows) > 1 THEN FALSE ELSE rows # {}

\* SyncService.create_sync_record: a new running row started now; -1 marks
\* a count that was never written
create_sync_record(table, date, sync_type, t) ==
  Append(table, [sync_date |-> date, sync_type |-> sync_type, status |-> "running",
                 started_at |-> t, error_message |-> None,
                 companies_processed |-> -1, companies_updated |-> -1,
                 companies_created |-> -1])

\* the columns written by update_sync_record
SyncColumns == {"status", "error_message", "companies_processed",
                "companies_updated", "companies_created"}

\* a row with the keyword arguments of update_sync_record stored into it
WithValues(row, kwargs) ==
  [row EXCEPT
     !.status = IF "status" \in DOMAIN kwargs THEN kwargs["status"] ELSE @,
     !.error_message = IF "error_message" \in DOMAIN kwargs THEN kwargs["error_message"] ELSE @,
     !.companies_processed =
        IF "companies_processed" \in DOMAIN kwargs THEN kwargs["companies_processed"] ELSE @,
     !.companies_updated =
        IF "companies_updated" \in DOMAIN kwargs THEN kwargs["companies_updated"] ELSE @,
     !.companies_created =
        IF "companies_created" \in DOMAIN kwargs THEN kwargs["companies_created"] ELSE @]

\* SyncService.update_sync_record: selects the daily rows started inside the
\* date and updates the selected one; no row, or more than one row
\* (MultipleResultsFound, caught), returns False and changes nothing
update_sync_record(table, date, kwargs) ==
  LET rows == { i \in 1..Len(table) :
                  /\ table[i].sync_type = "daily"
                  /\ InWindow(table[i].started_at, date) } IN
  IF Cardinality(rows) # 1 THEN [ret |-> FALSE, table |-> table]
  ELSE LET id == CHOOSE i \in rows : TRUE IN
       [ret |-> TRUE, table |-> [table EXCEPT ![id] = WithValues(table[id], kwargs)]]

\* -------------------------------------------------------- registry client

\* JSON values of the change feed (response.json()): every value carries
\* its Python type in the field shape. None, a string, a list of values,
\* a dict whose keys are the other fields of the record.
NoneNode == [shape |-> "None"]
Str(s) == [shape |-> "str", v |-> s]
List(items) == [shape |-> "list", items |-> items]
Dict(keys) == [shape |-> "dict"] @@ keys

\* Python dicts as functions: the empty dict, d[key] = value, del d[key]
EmptyMap == [k \in {} |-> NoneNode]
Put(f, key, value) == [k \in DOMAIN f \cup {key} |-> IF k = key THEN value ELSE f[k]]
Without(f, key) == [k \in DOMAIN f \ {key} |-> f[k]]

\* the requests the API serves at the same time: r1 reads, r2 reads and
\* writes
Reqs == {"r1", "r2"}
IdleReq == [pc |-> "idle", op |-> "none", uid |-> "none", phase |-> "none",
            data |-> EmptyMap, row |-> {}, ret |-> {}, exc |-> "none"]

\* no cache call yet
NoCall == [op |-> "none", key |-> "none", ret |-> NoneNode, exc |-> "none", at |-> 0,
           failed |-> FALSE, alone |-> NoneNode]

\* bool(x)
IsTruthy(n) ==
  CASE n.shape = "None" -> FALSE
    [] n.shape = "str" -> n.v # ""
    [] n.shape = "list" -> n.items # <<>>
    [] OTHER -> DOMAIN n # {"shape"}

\* key in x, for a string key: a dict answers by its keys, a list (of
\* nodes) holds no string, None raises TypeError (ContainsRaises)
Contains(n, key) == n.shape = "dict" /\ key \in DOMAIN n
ContainsRaises(n) == n.shape = "None"

\* x[0] if isinstance(x, list) and x else x
First(n) == IF n.shape = "list" /\ n.items # <<>> THEN n.items[1] ELSE n

\* the placeholder the registry puts in place of a redacted contact
Sentinel == "**********"

\* str.strip() on the strings of the feed: padded strings lose their
\* padding, a blank string becomes empty
Strip(s) ==
  CASE s = " 555 " -> "555"
    [] s = "   " -> ""
    [] s = " ********** " -> Sentinel
    [] OTHER -> s

\* _extract_subdeed_data, the Managers block: the first entry of the list
\* that is a dict with a non-blank '_' text; value "unset" when no entry
\* qualifies. Iterating None raises TypeError, .strip() of a truthy
\* non-string raises AttributeError.
RECURSIVE FirstManager(_)
FirstManager(entries) ==
  IF entries = <<>> THEN [exc |-> "none", value |-> "unset"]
  ELSE LET e == Head(entries) IN
       IF e.shape = "dict" /\ "_" \in DOMAIN e
       THEN IF ~IsTruthy(e["_"]) THEN FirstManager(Tail(entries))
            ELSE IF e["_"].shape # "str" THEN [exc |-> "AttributeError", value |-> "unset"]
            ELSE IF Strip(e["_"].v) # "" THEN [exc |-> "none", value |-> Strip(e["_"].v)]
            ELSE FirstManager(Tail(entries))
       ELSE FirstManager(Tail(entries))

Managers(subdeed, company_data) ==
  IF ~Contains(subdeed, "Managers") THEN [exc |-> "none", cd |-> company_data]
  ELSE IF subdeed["Managers"].shape # "list" THEN [exc |-> "TypeError", cd |-> company_data]
  ELSE LET m == FirstManager(subdeed["Managers"].items) IN
       [exc |-> m.exc,
        cd |-> IF m.value = "unset" THEN company_data
               ELSE [company_data EXCEPT !["manager"] = m.value]]

\* ', '.join(filter(None, address_parts)) for the part lists of the feed
JoinParts(strs) ==
  CASE strs = <<"Sofia">> -> "Sofia"
    [] strs = <<"Main St">> -> "Main St"
    [] strs = <<"Sofia", "Main St">> -> "Sofia, Main St"
    [] OTHER -> ""

\* the address parts of one Seat entry, in the order Settlement, Street,
\* StreetNumber, PostCode, each the first element of a list value
AddressParts(seat_entry) ==
  IF ~Contains(seat_entry, "Address") THEN <<>>
  ELSE LET addr == First(seat_entry["Address"])
           part(k) == IF Contains(addr, k) /\ IsTruthy(addr[k])
                      THEN << First(addr[k]) >> ELSE <<>>
       IN IF addr.shape # "dict" THEN <<>>
          ELSE part("Settlement") \o part("Street") \o part("StreetNumber") \o part("PostCode")

\* _extract_subdeed_data, the first loop over Seat: every entry with
\* address parts overwrites company_data['address']; joining a truthy
\* part that is no string raises TypeError
RECURSIVE SeatAddress(_, _)
SeatAddress(entries, company_data) ==
  IF entries = <<>> THEN [exc |-> "none", cd |-> company_data]
  ELSE LET e == Head(entries)
           parts == IF e.shape = "dict" THEN AddressParts(e) ELSE <<>>
           truthy == SelectSeq(parts, IsTruthy)
       IN IF parts = <<>> THEN SeatAddress(Tail(entries), company_data)
          ELSE IF \E k \in 1..Len(truthy) : truthy[k].shape # "str"
          THEN [exc |-> "TypeError", cd |-> company_data]
          ELSE SeatAddress(Tail(entries),
                 [company_data EXCEPT
                    !["address"] = JoinParts([k \in 1..Len(truthy) |-> truthy[k].v])])

\* one contact of a Contacts dict: key is the feed's key, field the key of
\* company_data, checked tells whether the code compares the value with
\* the redaction placeholder (it does for Phone only, before stripping)
Contact(contacts, company_data, key, field, checked) ==
  IF ~(Contains(contacts, key) /\ IsTruthy(contacts[key]))
  THEN [exc |-> "none", cd |-> company_data]
  ELSE LET x == First(contacts[key]) IN
       IF ~IsTruthy(x) THEN [exc |-> "none", cd |-> company_data]
       ELSE IF x.shape # "str" THEN [exc |-> "AttributeError", cd |-> company_data]
       ELSE IF Strip(x.v) # "" /\ (checked => x.v # Sentinel)
       THEN [exc |-> "none", cd |-> [company_data EXCEPT ![field] = Strip(x.v)]]
       ELSE [exc |-> "none", cd |-> company_data]

\* _extract_subdeed_data, the second loop over Seat: Phone, EMail and URL
\* of the first Contacts dict of every entry
RECURSIVE SeatContacts(_, _)
SeatContacts(entries, company_data) ==
  IF entries = <<>> THEN [exc |-> "none", cd |-> company_data]
  ELSE LET e == Head(entries)
           contacts == IF e.shape = "dict" /\ Contains(e, "Contacts")
                       THEN First(e["Contacts"]) ELSE NoneNode
           phone == Contact(contacts, company_data, "Phone", "phone", TRUE)
           email == Contact(contacts, phone.cd, "EMail", "email", FALSE)
           url == Contact(contacts, email.cd, "URL", "website", FALSE)
       IN IF contacts.shape # "dict" THEN SeatContacts(Tail(entries), company_data)
          ELSE IF phone.exc # "none" THEN phone
          ELSE IF email.exc # "none" THEN email
          ELSE IF url.exc # "none" THEN url
          ELSE SeatContacts(Tail(entries), url.cd)

\* DailySyncWorker._extract_subdeed_data: company_data as the call leaves
\* it. The dict is mutated in place, so an exception (caught and logged
\* here) keeps what was set before it.
ExtractSubdeedData(subdeed, company_data) ==
  IF ContainsRaises(subdeed) THEN company_data
  ELSE LET m == Managers(subdeed, company_data) IN
       IF m.exc # "none" THEN m.cd
       ELSE IF ~Contains(subdeed, "Seat") THEN m.cd
       ELSE IF subdeed["Seat"].shape # "list" THEN m.cd
       ELSE LET a == SeatAddress(subdeed["Seat"].items, m.cd) IN
            IF a.exc # "none" THEN a.cd
            ELSE SeatContacts(subdeed["Seat"].items, a.cd).cd

RECURSIVE ExtractSubdeeds(_, _)
ExtractSubdeeds(subdeeds, company_data) ==
  IF subdeeds = <<>> THEN company_data
  ELSE ExtractSubdeeds(Tail(subdeeds), ExtractSubdeedData(Head(subdeeds), company_data))

\* dict.get(key) of an attribute of '$': the string, None when absent
Get(deed_info, key) ==
  IF Contains(deed_info, key) /\ deed_info[key].shape = "str" THEN deed_info[key].v ELSE None

\* DailySyncWorker._extract_company_data: no record (the empty sequence)
\* for a deed without '$', without UIC or CompanyName, or on any exception
\* ('$' in None, .get of a '$' that is no dict, a SubDeed that cannot be
\* iterated); any other deed one company dict
ExtractCompanyData(deed) ==
  IF ContainsRaises(deed) \/ ~Contains(deed, "$") THEN <<>>
  ELSE IF deed["$"].shape # "dict" THEN <<>>
  ELSE LET deed_info == deed["$"]
           uid == Get(deed_info, "UIC")
           company_name == Get(deed_info, "CompanyName")
           company_data == [BlankCompany(uid, company_name) EXCEPT
                              !["legal_form"] = Get(deed_info, "LegalForm"),
                              !["status"] = Get(deed_info, "DeedStatus")]
       IN IF ~Truthy(uid) \/ ~Truthy(company_name) THEN <<>>
          ELSE IF ~Contains(deed, "SubDeed") THEN << company_data >>
          ELSE IF deed["SubDeed"].shape # "list" THEN <<>>
          ELSE << ExtractSubdeeds(deed["SubDeed"].items, company_data) >>

\* the keys parse_company_changes descends through, outermost first
LevelKeys == <<"Message", "Body", "Deeds", "Deed">>

\* the concatenation of a sequence of sequences
RECURSIVE Flatten(_)
Flatten(seqs) == IF seqs = <<>> THEN <<>> ELSE Head(seqs) \o Flatten(Tail(seqs))

\* the try block of parse_company_changes from the node of depth d down,
\* whether it raises: 'key' in None and iterating None raise TypeError; a
\* node without the key of its level is passed over; the values under the
\* key are visited in order, so a node that raises anywhere below is
\* reached (_extract_company_data, at the deeds, catches its own)
RECURSIVE ParseRaises(_, _)
ParseRaises(node, d) ==
  \/ ContainsRaises(node)
  \/ /\ Contains(node, LevelKeys[d])
     /\ \/ node[LevelKeys[d]].shape # "list"
        \/ /\ d < Len(LevelKeys)
           /\ \E k \in 1..Len(node[LevelKeys[d]].items) :
                ParseRaises(node[LevelKeys[d]].items[k], d + 1)

\* the same walk when nothing raises: the records appended, in the order
\* of the deeds
RECURSIVE ParseRecords(_, _)
ParseRecords(node, d) ==
  IF ~Contains(node, LevelKeys[d]) THEN <<>>
  ELSE Flatten([k \in 1..Len(node[LevelKeys[d]].items) |->
                  IF d = Len(LevelKeys)
                  THEN ExtractCompanyData(node[LevelKeys[d]].items[k])
                  ELSE ParseRecords(node[LevelKeys[d]].items[k], d + 1)])

\* DailySyncWorker.parse_company_changes: the records of the deeds in
\* payload order; on any exception of the walk the empty list
ParseCompanyChanges(daily_data) ==
  IF ParseRaises(daily_data, 1) THEN <<>> ELSE ParseRecords(daily_data, 1)

\* deed nodes of the change feed: the attributes '$' and one SubDeed whose
\* Seat has the contacts
Contacts(phone, email, url) ==
  Dict("Seat" :> List(<< Dict("Contacts" :> List(<<
         Dict(("Phone" :> phone) @@ ("EMail" :> email) @@ ("URL" :> url)) >>)) >>))
Deed(uic, name, subdeeds) ==
  Dict(("$" :> Dict(("UIC" :> uic) @@ ("CompanyName" :> name))) @@ ("SubDeed" :> subdeeds))

\* two well-formed deeds and one without UIC
DeedA == Deed(Str("u1"), Str("n1"), List(<< Contacts(List(<<Str("555")>>), NoneNode, NoneNode) >>))
DeedB == Deed(Str("u2"), Str("n2"), List(<< Contacts(NoneNode, List(<<Str("a@b.com")>>), NoneNode) >>))
DeedNoUIC == Deed(NoneNode, Str("n2"), List(<<>>))

\* a payload whose single message, body and deed group hold the deeds
Payload(deeds) ==
  Dict("Message" :> List(<< Dict("Body" :> List(<< Dict("Deeds" :> List(<<
         Dict("Deed" :> List(deeds)) >>)) >>)) >>))

\* the payloads a successful download can deliver: no deed, only a
\* malformed deed, two well-formed deeds, well-formed and malformed mixed
Payloads == { Payload(<<>>), Payload(<<DeedNoUIC>>), Payload(<<DeedA, DeedB>>),
              Payload(<<DeedA, DeedNoUIC, DeedB>>) }

\* DailySyncWorker.get_resource_by_date: only the known date has a resource
get_resource_by_date(target_date) == target_date = KnownDate

\* the results download_daily_data can return for a date: None without a
\* resource; otherwise None (request failed, bad status, no link, any
\* exception) or the downloaded payload. A result is a set: {} is None.
DownloadResults(date) ==
  IF ~get_resource_by_date(date) THEN {{}}
  ELSE {{}} \cup { {pl} : pl \in Payloads }

\* DailySyncWorker.get_available_dates: the dates of known_resources
get_available_dates == {KnownDate}

\* ------------------------------------------------------- sync orchestrator
\* the callers that run at the same time: w1 is the worker process, whose
\* entry points (main: run_historical_sync, then run_daily_sync; a
\* run_sync_for_date call) follow one another; w2 is whatever runs beside
\* it, an overlapping invocation of run_daily_sync or a request to the
\* trigger endpoint
Procs == {"w1", "w2"}
Worker == {"w1"}
Beside == {"w2"}

\* a caller starts an operation when it is not inside one
FreeSlot(p) == proc[p].pc = "idle"

IdleProc ==
  [pc |-> "idle", kind |-> "none", date |-> 0, sync_type |-> "none", sync_id |-> 0,
   dates_to_sync |-> <<>>, companies |-> <<>>, i |-> 0, branch |-> "none",
   signal |-> "none"]

\* the keyword arguments of the update_sync_record calls
KwCompleted(companies) ==
  ("status" :> "completed")
    @@ ("companies_processed" :> Len(companies))
    @@ ("companies_updated" :>
          Cardinality({k \in 1..Len(companies) : companies[k].is_new # "True"}))
    @@ ("companies_created" :>
          Cardinality({k \in 1..Len(companies) : companies[k].is_new = "True"}))

KwZero == ("status" :> "completed") @@ ("companies_processed" :> 0)

\* the failure keyword arguments with the status of a success
KwFailed_completed(message) == ("status" :> "completed") @@ ("error_message" :> message)

KwFailed(message) == ("status" :> "failed") @@ ("error_message" :> message)

\* the branch a run takes on what download_daily_data returned, and the
\* locals it leaves: None -> fail, a payload without records -> empty,
\* a payload with records -> data (update_database runs next)
AfterDownload(pr, res) ==
  IF res = {} THEN [pr EXCEPT !.branch = "fail", !.pc = "update"]
  ELSE LET companies == ParseCompanyChanges(CHOOSE pl \in res : TRUE) IN
       IF companies = <<>>
       THEN [pr EXCEPT !.branch = "empty", !.pc = "update"]
       ELSE [pr EXCEPT !.branch = "data", !.pc = "merge", !.i = 1,
                       !.companies = [k \in 1..Len(companies) |->
                                        [c |-> companies[k], is_new |-> "unset",
                                         ret |-> "unset"]]]

Init ==
  /\ company_table = [u \in {} |-> None]
  /\ applied = <<>>
  /\ sync_history = <<>>
  /\ now = 0
  /\ proc = [p \in Procs |-> IdleProc]
  /\ payload = NoneNode
  /\ deed_nodes = <<>>
  /\ parsed = <<>>
  /\ cache_service = [redis_client |-> "unset", fallback_cache |-> EmptyMap,
                      fallback_timestamps |-> EmptyMap]
  /\ redis = [up |-> TRUE, data |-> EmptyMap]
  /\ loop_time = 0
  /\ last = NoCall
  /\ sets = EmptyMap
  /\ req = [r \in Reqs |-> IdleReq]
  /\ enrichment_cache = EmptyMap
  /\ datetime_now = 0

\* time passes
Tick ==
  /\ now < MaxNow
  /\ now' = now + 1
  /\ UNCHANGED <<otherVars, company_table, applied, sync_history, proc>>

\* run_daily_sync up to the idempotency guard
RunDailySyncGuard(p) ==
  /\ FreeSlot(p)
  /\ LET today == DateOf(now) IN
     IF is_date_synced(sync_history, today)
     THEN UNCHANGED proc
     ELSE /\ proc' = [proc EXCEPT ![p] =
                        [IdleProc EXCEPT !.pc = "create", !.kind = "daily", !.date = today]]
  /\ UNCHANGED <<otherVars, company_table, applied, sync_history, now>>

\* run_daily_sync: create_sync_record(today, "daily"), then the calls that
\* touch neither table: get_available_dates, download_daily_data and
\* parse_company_changes
RunDailySyncCreate(p) ==
  /\ proc[p].pc = "create" /\ proc[p].kind = "daily"
  /\ Len(sync_history) < MaxRecords
  /\ sync_history' = create_sync_record(sync_history, proc[p].date, "daily", now)
  /\ LET pr == [proc[p] EXCEPT !.sync_id = Len(sync_history) + 1] IN
     IF pr.date \in get_available_dates
     THEN \E res \in DownloadResults(pr.date) :
            proc' = [proc EXCEPT ![p] = AfterDownload(pr, res)]
     ELSE proc' = [proc EXCEPT ![p] = [pr EXCEPT !.branch = "nodata", !.pc = "update"]]
  /\ UNCHANGED <<otherVars, company_table, applied, now>>

\* update_database: one _update_single_company call of the loop
UpdateDatabaseStep(p) ==
  /\ proc[p].pc = "merge"
  /\ LET pr == proc[p]
         r == UpdateSingleCompany(company_table, pr.companies[pr.i].c, pr.companies[pr.i].is_new)
     IN /\ company_table' = r.table
        /\ proc' = [proc EXCEPT ![p].companies[pr.i].is_new = r.is_new,
                                ![p].companies[pr.i].ret = IF r.ret THEN "True" ELSE "False",
                                ![p].i = pr.i + 1,
                                ![p].pc = IF pr.i = Len(pr.companies) THEN "update" ELSE "merge"]
  /\ UNCHANGED <<otherVars, applied, sync_history, now>>

\* run_daily_sync: the update_sync_record call of the branch taken, the
\* activity log entry of the data branch, and the return
RunDailySyncUpdate(p) ==
  /\ proc[p].pc = "update" /\ proc[p].kind = "daily"
  /\ LET pr == proc[p]
         kwargs == IF pr.branch = "data" THEN KwCompleted(pr.companies)
                   ELSE IF pr.branch = "fail" THEN KwFailed("Failed to download data")
                   ELSE KwZero
         r == update_sync_record(sync_history, pr.date, kwargs)
     IN /\ sync_history' = r.table
        /\ proc' = [proc EXCEPT ![p] = IdleProc]
  /\ UNCHANGED <<otherVars, company_table, applied, now>>

\* run_sync_for_date: create_sync_record(target_date, "specific") without
\* a guard, then download_daily_data and parse_company_changes
RunSyncForDateCreate(p, target_date) ==
  /\ FreeSlot(p)
  /\ Len(sync_history) < MaxRecords
  /\ sync_history' = create_sync_record(sync_history, target_date, "specific", now)
  /\ LET pr == [IdleProc EXCEPT !.kind = "specific", !.date = target_date,
                                !.sync_id = Len(sync_history) + 1] IN
     \E res \in DownloadResults(target_date) :
       proc' = [proc EXCEPT ![p] = AfterDownload(pr, res)]
  /\ UNCHANGED <<otherVars, company_table, applied, now>>

\* the keyword arguments run_sync_for_date and run_historical_sync pass to
\* update_sync_record for the branch taken
DateKwargs(pr) ==
  IF pr.branch = "data" THEN KwCompleted(pr.companies)
  ELSE IF pr.branch = "fail" THEN KwFailed("No data available")
  ELSE KwZero

\* run_sync_for_date: update_sync_record, the log entry of the data branch,
\* and the return
RunSyncForDateUpdate(p) ==
  /\ proc[p].pc = "update" /\ proc[p].kind = "specific"
  /\ LET pr == proc[p]
         r == update_sync_record(sync_history, pr.date, DateKwargs(pr))
     IN /\ sync_history' = r.table
        /\ proc' = [proc EXCEPT ![p] = IdleProc]
  /\ UNCHANGED <<otherVars, company_table, applied, now>>

\* the last days_back calendar dates, today first
RECURSIVE LastDates(_, _)
LastDates(today, days_back) ==
  IF days_back = 0 THEN <<>>
  ELSE <<today>> \o LastDates(today - 1, days_back - 1)

\* the dates of a sequence that is_date_synced does not report as synced
RECURSIVE Unsynced(_, _)
Unsynced(table, dates) ==
  IF dates = <<>> THEN <<>>
  ELSE (IF is_date_synced(table, Head(dates)) THEN <<>> ELSE <<Head(dates)>>)
         \o Unsynced(table, Tail(dates))

\* run_historical_sync: the dates_to_sync filter and the early return
RunHistoricalSyncGuard(p, days_back) ==
  /\ FreeSlot(p)
  /\ days_back >= 1 /\ days_back <= DateOf(now) + 1
  /\ LET dates == LastDates(DateOf(now), days_back)
         dates_to_sync == Unsynced(sync_history, dates)
     IN IF dates_to_sync = <<>>
           THEN UNCHANGED proc
           ELSE proc' = [proc EXCEPT ![p] =
                           [IdleProc EXCEPT !.pc = "create", !.kind = "historical",
                              !.dates_to_sync = dates_to_sync]]
  /\ UNCHANGED <<otherVars, company_table, applied, sync_history, now>>

\* run_historical_sync: create_sync_record(date, "historical") for the next
\* date of dates_to_sync, then download_daily_data and parse_company_changes
RunHistoricalSyncCreate(p) ==
  /\ proc[p].pc = "create" /\ proc[p].kind = "historical"
  /\ Len(sync_history) < MaxRecords
  /\ LET date == Head(proc[p].dates_to_sync)
         pr == [proc[p] EXCEPT !.date = date, !.sync_id = Len(sync_history) + 1,
                               !.companies = <<>>, !.i = 0, !.branch = "none"]
     IN /\ sync_history' = create_sync_record(sync_history, date, "historical", now)
        /\ \E res \in DownloadResults(date) :
             proc' = [proc EXCEPT ![p] = AfterDownload(pr, res)]
  /\ UNCHANGED <<otherVars, company_table, applied, now>>

\* run_historical_sync: update_sync_record for the date and the log entry
\* of the data branch; asyncio.sleep(1) follows
RunHistoricalSyncUpdate(p) ==
  /\ proc[p].pc = "update" /\ proc[p].kind = "historical"
  /\ LET pr == proc[p]
         r == update_sync_record(sync_history, pr.date, DateKwargs(pr))
     IN /\ sync_history' = r.table
        /\ proc' = [proc EXCEPT ![p].pc = "sleep"]
  /\ UNCHANGED <<otherVars, company_table, applied, now>>

\* run_historical_sync: the sleep between dates is over; the next date, or
\* the closing log entry and the return
RunHistoricalSyncNext(p) ==
  /\ proc[p].pc = "sleep"
  /\ LET rest == Tail(proc[p].dates_to_sync) IN
     IF rest = <<>>
     THEN proc' = [proc EXCEPT ![p] = IdleProc]
     ELSE proc' = [proc EXCEPT ![p].pc = "create", ![p].dates_to_sync = rest]
  /\ UNCHANGED <<otherVars, company_table, applied, sync_history, now>>

\* the sync types a caller of the trigger endpoint passes
TriggerTypes == {"manual", "daily"}

\* trigger_manual_sync up to the is_date_synced check (the date is well
\* formed)
TriggerManualSyncGuard(p, sync_date, sync_type) ==
  /\ FreeSlot(p)
  /\ IF is_date_synced(sync_history, sync_date)
     THEN UNCHANGED proc
     ELSE /\ proc' = [proc EXCEPT ![p] =
                        [IdleProc EXCEPT !.pc = "create", !.kind = "trigger",
                           !.date = sync_date, !.sync_type = sync_type]]
  /\ UNCHANGED <<otherVars, company_table, applied, sync_history, now>>

\* trigger_manual_sync: create_sync_record, the log entry and the response
TriggerManualSyncCreate(p) ==
  /\ proc[p].pc = "create" /\ proc[p].kind = "trigger"
  /\ Len(sync_history) < MaxRecords
  /\ sync_history' = create_sync_record(sync_history, proc[p].date, proc[p].sync_type, now)
  /\ proc' = [proc EXCEPT ![p] = IdleProc]
  /\ UNCHANGED <<otherVars, company_table, applied, now>>

Next ==
  \/ Tick
  \/ \E p \in Procs : RunDailySyncGuard(p)
  \/ \E p \in Procs : RunDailySyncCreate(p)
  \/ \E p \in Procs : UpdateDatabaseStep(p)
  \/ \E p \in Procs : RunDailySyncUpdate(p)
  \/ \E p \in Worker, d \in Dates : RunSyncForDateCreate(p, d)
  \/ \E p \in Procs : RunSyncForDateUpdate(p)
  \/ \E p \in Worker, n \in 1..(MaxDay + 1) : RunHistoricalSyncGuard(p, n)
  \/ \E p \in Procs : RunHistoricalSyncCreate(p)
  \/ \E p \in Procs : RunHistoricalSyncUpdate(p)
  \/ \E p \in Procs : RunHistoricalSyncNext(p)
  \/ \E p \in Beside, d \in Dates, t \in TriggerTypes : TriggerManualSyncGuard(p, d, t)
  \/ \E p \in Procs : TriggerManualSyncCreate(p)

Spec == Init /\ [][Next]_vars

TypeOK ==
  /\ now \in 0..MaxNow
  /\ Len(sync_history) <= MaxRecords

\* ------------------------------------- worker process: failures and signals
\* the worker process on its own (daily_sync.py run as a program, or a
\* caller of run_sync_for_date), with the two things that can cut a run
\* short: add_log_entry raising, and a signal from the host

\* "except Exception as e": the clause catches every exception that is not
\* one of the BaseException-only classes
ExceptException_bare(e) == TRUE

ExceptException(e) == e \notin {"KeyboardInterrupt", "CancelledError", "SystemExit"}

\* what LogService.add_log_entry lets out: a SQLAlchemyError is caught and
\* turned into False, unless the rollback in that except clause raises too
LogRaises == {"SQLAlchemyError"}

\* the except clause around the work on one date, entered with exception e:
\* update_sync_record(date, status="failed", error_message=str(e)); then
\* run_historical_sync goes on with the next date of the loop (the sleep is
\* inside the try and is skipped), the other runs return
Except(pr, table, e) ==
  [table |-> update_sync_record(table, pr.date, KwFailed(e)).table,
   proc |-> IF pr.kind = "historical" /\ Tail(pr.dates_to_sync) # <<>>
            THEN [pr EXCEPT !.pc = "create", !.dates_to_sync = Tail(@)]
            ELSE IdleProc]

\* run_daily_sync, data branch: update_sync_record has stored the counts,
\* add_log_entry raises e; the except clause runs and re-raises, the outer
\* except clause logs and the run returns
RunDailySyncLogRaises(p, e) ==
  /\ proc[p].pc = "update" /\ proc[p].kind = "daily" /\ proc[p].branch = "data"
  /\ \E h \in { Except(proc[p],
                       update_sync_record(sync_history, proc[p].date,
                                          KwCompleted(proc[p].companies)).table, e) } :
       /\ sync_history' = h.table
       /\ proc' = [proc EXCEPT ![p] = h.proc]
  /\ UNCHANGED <<otherVars, company_table, applied, now>>

\* run_sync_for_date, data branch, add_log_entry raising e
RunSyncForDateLogRaises(p, e) ==
  /\ proc[p].pc = "update" /\ proc[p].kind = "specific" /\ proc[p].branch = "data"
  /\ \E h \in { Except(proc[p],
                       update_sync_record(sync_history, proc[p].date,
                                          DateKwargs(proc[p])).table, e) } :
       /\ sync_history' = h.table
       /\ proc' = [proc EXCEPT ![p] = h.proc]
  /\ UNCHANGED <<otherVars, company_table, applied, now>>

\* run_historical_sync, data branch of one date, add_log_entry raising e
RunHistoricalSyncLogRaises(p, e) ==
  /\ proc[p].pc = "update" /\ proc[p].kind = "historical" /\ proc[p].branch = "data"
  /\ \E h \in { Except(proc[p],
                       update_sync_record(sync_history, proc[p].date,
                                          DateKwargs(proc[p])).table, e) } :
       /\ sync_history' = h.table
       /\ proc' = [proc EXCEPT ![p] = h.proc]
  /\ UNCHANGED <<otherVars, company_table, applied, now>>

\* the signals a host sends to stop the worker
Signals == {"SIGINT", "SIGTERM"}

\* what a signal raises inside the running coroutine. The module installs
\* no handler: SIGINT surfaces as KeyboardInterrupt (the main task is
\* cancelled), SIGTERM ends the process without raising anything.
SignalRaises(sig) == IF sig = "SIGINT" THEN "KeyboardInterrupt" ELSE "none"

\* the awaits of a run that lie inside the try block around one date
InsideTry(pr) == pr.pc \in {"merge", "update", "sleep"}

\* a signal reaches the worker process while a run is suspended at an
\* await. An exception that the except clause around the date catches is
\* handled there; otherwise nothing of the run executes any more. signal
\* records what ended the caller's last run.
Interrupt(p, sig) ==
  /\ proc[p].pc # "idle"
  /\ IF SignalRaises(sig) # "none" /\ ExceptException(SignalRaises(sig)) /\ InsideTry(proc[p])
     THEN \E h \in { Except(proc[p], sync_history, SignalRaises(sig)) } :
            /\ sync_history' = h.table
            /\ proc' = [proc EXCEPT ![p] = [h.proc EXCEPT !.signal = sig]]
     ELSE /\ sync_history' = sync_history
          /\ proc' = [proc EXCEPT ![p] = [IdleProc EXCEPT !.signal = sig]]
  /\ UNCHANGED <<otherVars, company_table, applied, now>>

NextWorker ==
  \/ Tick
  \/ \E p \in Worker : RunDailySyncGuard(p)
  \/ \E p \in Worker : RunDailySyncCreate(p)
  \/ \E p \in Worker : UpdateDatabaseStep(p)
  \/ \E p \in Worker : RunDailySyncUpdate(p)
  \/ \E p \in Worker, e \in LogRaises : RunDailySyncLogRaises(p, e)
  \/ \E p \in Worker, d \in Dates : RunSyncForDateCreate(p, d)
  \/ \E p \in Worker : RunSyncForDateUpdate(p)
  \/ \E p \in Worker, e \in LogRaises : RunSyncForDateLogRaises(p, e)
  \/ \E p \in Worker, n \in 1..(MaxDay + 1) : RunHistoricalSyncGuard(p, n)
  \/ \E p \in Worker : RunHistoricalSyncCreate(p)
  \/ \E p \in Worker : RunHistoricalSyncUpdate(p)
  \/ \E p \in Worker, e \in LogRaises : RunHistoricalSyncLogRaises(p, e)
  \/ \E p \in Worker : RunHistoricalSyncNext(p)
  \/ \E p \in Worker, sig \in Signals : Interrupt(p, sig)

SpecWorker == Init /\ [][NextWorker]_vars

\* ------------------------------------------------------- trigger endpoint
\* trigger_manual_sync as one request of the API, with the text of its
\* sync_date parameter and the response it returns

\* the sync_date parameters of the model
SyncDates == {"2025-08-13", "2025-08-14", "2025-8-14", "14.08.2025"}

\* datetime.strptime(text, "%Y-%m-%d"): the day of the model clock, or
\* ValueError. %m and %d take one digit or two, so "2025-8-14" parses.
Strptime(text) ==
  IF text = "2025-08-13" THEN [exc |-> "none", day |-> KnownDate - 1]
  ELSE IF text \in {"2025-08-14", "2025-8-14"} THEN [exc |-> "none", day |-> KnownDate]
  ELSE [exc |-> "ValueError", day |-> 0]

\* the body of a response, and the response of an HTTPException
Response(status, sync_id) == [status |-> status, sync_id |-> sync_id]

\* trigger_manual_sync: the whole handler, from the strptime check to the
\* response (the log entry is not part of the state)
TriggerManualSync(r, sync_date, sync_type) ==
  /\ req[r].pc = "idle"
  /\ \E d \in { Strptime(sync_date) },
        rq \in { [IdleReq EXCEPT !.op = "trigger_manual_sync",
                                 !.data = ("sync_date" :> sync_date)] } :
       IF d.exc # "none"
       THEN /\ req' = [req EXCEPT ![r] = [rq EXCEPT !.exc = "HTTP 400"]]
            /\ UNCHANGED sync_history
       ELSE IF is_date_synced(sync_history, d.day)
       THEN /\ req' = [req EXCEPT ![r] =
                         [rq EXCEPT !.ret = {Response("already_synced", 0)}]]
            /\ UNCHANGED sync_history
       ELSE /\ Len(sync_history) < MaxRecords
            /\ sync_history' = create_sync_record(sync_history, d.day, sync_type, now)
            /\ req' = [req EXCEPT ![r] =
                         [rq EXCEPT !.ret = {Response("queued", Len(sync_history) + 1)}]]
  /\ UNCHANGED <<parserVars, enrichVars, cacheVars, company_table, applied, now, proc>>

\* the worker's daily and specific-date runs, and requests to the endpoint
NextTrigger ==
  \/ Tick
  \/ \E p \in Worker : RunDailySyncGuard(p)
  \/ \E p \in Worker : RunDailySyncCreate(p)
  \/ \E p \in Worker : UpdateDatabaseStep(p)
  \/ \E p \in Worker : RunDailySyncUpdate(p)
  \/ \E p \in Worker, d \in Dates : RunSyncForDateCreate(p, d)
  \/ \E p \in Worker : RunSyncForDateUpdate(p)
  \/ \E sync_date \in SyncDates, sync_type \in TriggerTypes :
       TriggerManualSync("r1", sync_date, sync_type)

SpecTrigger == Init /\ [][NextTrigger]_vars

\* ----------------------------------------------------------- bulk import
\* import_data as one request of the API: the uploaded file, its parsing
\* into companies_data, the check of the required fields, the writes

\* required_fields, which are also the columns of an uploaded CSV file
RequiredFields == <<"uid", "name", "manager", "address">>

\* the objects of an uploaded JSON file: every required key, or every
\* required key but manager
JsonRecords ==
  { [f \in keys |-> IF f = "uid" THEN u
                    ELSE IF f = "name" THEN "n1"
                    ELSE IF f = "manager" THEN "m1" ELSE "a1"] :
      u \in UIDs,
      keys \in { {"uid", "name", "manager", "address"}, {"uid", "name", "address"} } }

\* the data lines of an uploaded CSV file, as their cells: a full line, and
\* lines that end after the manager, after the name, after the uid
CsvRows ==
  UNION { { <<u, "n1", "m1", "a1">>, <<u, "n1", "m1">>, <<u, "n1">>, <<u>> } : u \in UIDs }

\* the uploaded files: a JSON array of objects, or a CSV file whose header
\* names the four required columns
Uploads ==
  UNION { [format : {"json"}, body : [1..n -> JsonRecords]]
            \cup [format : {"csv"}, body : [1..n -> CsvRows]] : n \in 1..MaxUpload }

\* csv.DictReader on one line: a dict with every column of the header; a
\* column for which the line has no cell gets restval, None
DictReader(header, line) ==
  [c \in {header[k] : k \in 1..Len(header)} |->
     LET k == CHOOSE j \in 1..Len(header) : header[j] = c IN
     IF k <= Len(line) THEN line[k] ELSE None]

\* companies_data: json.loads of the content, or list(csv.DictReader(...))
ParseUpload(file) ==
  IF file.format = "json" THEN file.body
  ELSE [k \in 1..Len(file.body) |-> DictReader(RequiredFields, file.body[k])]

\* invalid_companies: the indexes of the dicts in which a required key is
\* missing ("field in company")
InvalidCompanies(companies_data) ==
  { i \in 1..Len(companies_data) :
      ~\A k \in 1..Len(RequiredFields) : RequiredFields[k] \in DOMAIN companies_data[i] }

\* the row import_companies writes for one dict: values(**company_data)
\* sets the keys of the dict on an existing row, Company(**company_data)
\* leaves every other column of a new row null
ImportRow(table, company_data) ==
  [f \in CompanyFields |->
     IF f \in DOMAIN company_data THEN company_data[f]
     ELSE IF company_data.uid \in DOMAIN table THEN table[company_data.uid][f]
     ELSE None]

\* the loop of import_companies over companies_data
RECURSIVE ImportAll(_, _)
ImportAll(table, companies_data) ==
  IF companies_data = <<>> THEN table
  ELSE ImportAll(import_companies(table, ImportRow(table, Head(companies_data))),
                 Tail(companies_data))

\* the body of the 400 response, with the number of invalid records, and
\* of the 201 response, with the number of imported records
ImportResponse(status, count) == [status |-> status, count |-> count]

\* import_data: the whole handler. A dict whose name is None cannot be
\* stored (the column is not nullable): the commit raises, the import is
\* rolled back and the handler answers 500.
ImportUpload(r, file) ==
  /\ req[r].pc = "idle"
  /\ \E companies_data \in { ParseUpload(file) },
        rq \in { [IdleReq EXCEPT !.op = "import_data", !.data = ("file" :> file)] } :
       IF InvalidCompanies(companies_data) # {}
       THEN /\ req' = [req EXCEPT ![r] =
                         [rq EXCEPT !.exc = "HTTP 400",
                                    !.ret = {ImportResponse(
                                               400, Cardinality(InvalidCompanies(companies_data)))}]]
            /\ UNCHANGED company_table
       ELSE IF \E i \in 1..Len(companies_data) : companies_data[i].name = None
       THEN /\ req' = [req EXCEPT ![r] = [rq EXCEPT !.exc = "HTTP 500"]]
            /\ UNCHANGED company_table
       ELSE /\ company_table' = ImportAll(company_table, companies_data)
            /\ req' = [req EXCEPT ![r] =
                         [rq EXCEPT !.ret = {ImportResponse(
                                               201, Cardinality({ companies_data[i].uid :
                                                      i \in 1..Len(companies_data) }
                                                    \ DOMAIN company_table))}]]
  /\ UNCHANGED <<parserVars, enrichVars, cacheVars, applied, sync_history, now, proc>>

NextImport == \E file \in Uploads : ImportUpload("r1", file)

SpecImport == Init /\ [][NextImport]_vars

\* ------------------------------------------------- merge engine on its own

\* import_data: an uploaded file of one valid row goes through
\* import_companies; the merges logged so far are no longer back to back
ImportData(row) ==
  /\ company_table' = import_companies(company_table, row)
  /\ applied' = <<>>
  /\ UNCHANGED <<otherVars, sync_history, now, proc>>

\* one call of _update_single_company on a company dict; a dict applied
\* again right after itself is the same (mutated) dict
ApplyChange(company) ==
  /\ Len(applied) < MaxApplied
  /\ LET is_new == IF applied # <<>> /\ applied[Len(applied)].company = company
                   THEN applied[Len(applied)].is_new ELSE "unset"
         r == UpdateSingleCompany(company_table, company, is_new)
     IN /\ company_table' = r.table
        /\ applied' = Append(applied,
                         [company |-> company, ret |-> r.ret, is_new |-> r.is_new,
                          before |-> Stored(company_table, company.uid),
                          after |-> Stored(r.table, company.uid)])
  /\ UNCHANGED <<otherVars, sync_history, now, proc>>

NextMerge ==
  \/ \E row \in ImportRows : ImportData(row)
  \/ \E company \in Changes : ApplyChange(company)

SpecMerge == Init /\ [][NextMerge]_vars

\* ------------------------------------------------------ parser on its own

\* deeds that lack the name or the attributes, deeds with identifier and
\* name whose sub-deeds are of the wrong shape (SubDeed is None; a None
\* among the sub-deeds; contacts that are no strings), a deed whose
\* contacts are all redacted, one whose contacts are padded or blank, one
\* with managers and an address
DeedNoName == Deed(Str("u1"), NoneNode, List(<<>>))
DeedNoInfo == Dict("SubDeed" :> List(<<>>))
DeedBadSubDeed == Deed(Str("u1"), Str("n1"), NoneNode)
DeedBadSubElem ==
  Deed(Str("u2"), Str("n2"),
       List(<< NoneNode, Contacts(Dict("x" :> NoneNode), Str("a@b.com"), NoneNode),
               Contacts(Str("555"), NoneNode, NoneNode) >>))
DeedRedacted ==
  Deed(Str("u1"), Str("n1"),
       List(<< Contacts(List(<<Str(Sentinel)>>), List(<<Str(Sentinel)>>), List(<<Str(Sentinel)>>)) >>))
DeedPadded ==
  Deed(Str("u2"), Str("n2"), List(<< Contacts(Str(" 555 "), Str("   "), Str("")) >>))
DeedManaged ==
  Deed(Str("u1"), Str("n1"),
       List(<< Dict(("Managers" :> List(<< Dict("_" :> Str("   ")), Dict("_" :> Str("m1")),
                                            Dict("_" :> Str("m2")) >>))
                    @@ ("Seat" :> List(<< Dict("Address" :> List(<<
                          Dict(("Settlement" :> List(<<Str("Sofia")>>))
                               @@ ("Street" :> Str("Main St"))
                               @@ ("PostCode" :> Str(""))) >>)) >>))) >>))

\* a deed whose two sub-deeds each name a manager, and one whose first
\* manager entry is redacted
DeedTwoBoards ==
  Deed(Str("u1"), Str("n1"),
       List(<< Dict("Managers" :> List(<< Dict("_" :> Str("m1")) >>)),
               Dict("Managers" :> List(<< Dict("_" :> Str("m2")) >>)) >>))
DeedRedactedManager ==
  Deed(Str("u2"), Str("n2"),
       List(<< Dict("Managers" :> List(<< Dict("_" :> Str(Sentinel)),
                                          Dict("_" :> Str("m1")) >>)) >>))

\* a deed whose attributes carry the registry's codes: legal form 20 and a
\* deed status the registry's code list does not have
DeedCoded ==
  Dict(("$" :> Dict(("UIC" :> Str("u1")) @@ ("CompanyName" :> Str("n1"))
                    @@ ("LegalForm" :> Str("20")) @@ ("DeedStatus" :> Str("9"))))
       @@ ("SubDeed" :> List(<<>>)))

ParseDeeds == { DeedA, DeedB, DeedNoUIC, DeedNoName, DeedNoInfo, NoneNode, DeedBadSubDeed,
                DeedBadSubElem, DeedRedacted, DeedPadded, DeedManaged, DeedTwoBoards,
                DeedRedactedManager, DeedCoded }

\* the lists of at most MaxDeeds deeds
DeedLists == UNION { [1..n -> ParseDeeds] : n \in 0..MaxDeeds }

\* nodes of the wrong shape for a message, a body or a deed group: None,
\* and a dict without the key of its level
Malformed == { NoneNode, [shape |-> "dict"] }

\* a node alone, or with a malformed sibling before or after it
Around(x) == { <<x>> } \cup { <<b, x>> : b \in Malformed } \cup { <<x, b>> : b \in Malformed }

\* parse_company_changes is called on a payload whose deeds lie in one
\* deed group of one body of one message, each of the three possibly next
\* to a malformed sibling; one call per behaviour, the function keeps no
\* state between calls
ParseCall ==
  /\ payload = NoneNode
  /\ \E deeds \in DeedLists :
       \E groups \in Around(Dict("Deed" :> List(deeds))) :
         \E bodies \in Around(Dict("Deeds" :> List(groups))) :
           \E messages \in Around(Dict("Body" :> List(bodies))) :
             /\ payload' = Dict("Message" :> List(messages))
             /\ deed_nodes' = deeds
             /\ parsed' = ParseCompanyChanges(Dict("Message" :> List(messages)))
  /\ UNCHANGED <<syncVars, cacheVars, serviceVars, enrichVars>>

NextParse == ParseCall

SpecParse == Init /\ [][NextParse]_vars

\* ------------------------------------------------------------------ cache
\* The clock of the cache is the event loop's; one unit stands for as many
\* seconds as make CacheTtl the default lifetime CACHE_TTL * 3600, and the
\* capacity of the in-memory tier (1000 in the code) is scaled to
\* FallbackCap so that CacheKeys has more keys than fit.
CacheTtl == 1
FallbackCap == 1
CacheKeys == {"k1", "k2"}

\* the ttl arguments of set: none given (0), and longer than the default
Ttls == {0, 2}

\* values handed to set: a string, and an object json.dumps rejects (a
\* datetime, as in the dict get_company caches); counters are Num nodes
Num(n) == [shape |-> "int", v |-> n]
Obj == [shape |-> "object"]
CacheValues == { Str("a"), Obj }

\* Python's True / False / None as results of the cache calls
Bool(b) == [shape |-> "bool", v |-> b]

\* CacheService._get_fallback: the entry if it is younger than the default
\* lifetime, else the entry is deleted from both maps; a key without a
\* timestamp counts as set at time 0, and deleting its timestamp raises
\* KeyError after the value is gone
get_fallback(cs, t, key) ==
  IF key \notin DOMAIN cs.fallback_cache THEN [exc |-> "none", ret |-> NoneNode, cs |-> cs]
  ELSE LET timestamp == IF key \in DOMAIN cs.fallback_timestamps
                        THEN cs.fallback_timestamps[key] ELSE 0
           gone == [cs EXCEPT !.fallback_cache = Without(cs.fallback_cache, key)]
       IN IF t - timestamp < CacheTtl
          THEN [exc |-> "none", ret |-> cs.fallback_cache[key], cs |-> cs]
          ELSE IF key \notin DOMAIN cs.fallback_timestamps
          THEN [exc |-> "KeyError", ret |-> NoneNode, cs |-> gone]
          ELSE [exc |-> "none", ret |-> NoneNode,
                cs |-> [gone EXCEPT !.fallback_timestamps = Without(cs.fallback_timestamps, key)]]

\* CacheService._cleanup_fallback_cache: the entries older than the default
\* lifetime leave both maps
cleanup_fallback_cache(cs, t) ==
  LET expired_keys == { k \in DOMAIN cs.fallback_timestamps :
                          t - cs.fallback_timestamps[k] > CacheTtl }
  IN [cs EXCEPT !.fallback_cache = [k \in DOMAIN cs.fallback_cache \ expired_keys |->
                                      cs.fallback_cache[k]],
                !.fallback_timestamps = [k \in DOMAIN cs.fallback_timestamps \ expired_keys |->
                                           cs.fallback_timestamps[k]]]

\* CacheService._set_fallback: the ttl argument is not used
set_fallback(cs, t, key, value, ttl) ==
  LET stored == [cs EXCEPT !.fallback_cache = Put(cs.fallback_cache, key, value),
                           !.fallback_timestamps = Put(cs.fallback_timestamps, key, t)]
  IN [ret |-> Bool(TRUE),
      cs |-> IF Cardinality(DOMAIN stored.fallback_cache) > FallbackCap
             THEN cleanup_fallback_cache(stored, t) ELSE stored]

\* CacheService._delete_fallback: a key without timestamp raises KeyError
\* after its value is deleted, which is caught and answered False
delete_fallback(cs, key) ==
  IF key \notin DOMAIN cs.fallback_cache THEN [ret |-> Bool(TRUE), cs |-> cs]
  ELSE IF key \notin DOMAIN cs.fallback_timestamps
  THEN [ret |-> Bool(FALSE), cs |-> [cs EXCEPT !.fallback_cache = Without(cs.fallback_cache, key)]]
  ELSE [ret |-> Bool(TRUE),
        cs |-> [cs EXCEPT !.fallback_cache = Without(cs.fallback_cache, key),
                          !.fallback_timestamps = Without(cs.fallback_timestamps, key)]]

\* json.dumps / json.loads: a string or a number becomes JSON text and
\* comes back as itself; an object has no JSON text (TypeError)
Serializable(value) == value.shape \in {"str", "int", "None", "bool"}
Dumps(value) == [shape |-> "json", text |-> value]
Loads(bytes) == bytes.text

\* the keys the primary tier holds at time t: an entry lives until its
\* expiry time; -1 is no expiry
Live(rd, t) == { k \in DOMAIN rd.data : rd.data[k].expiry = -1 \/ t < rd.data[k].expiry }

\* a call of the primary tier raises when the tier does not answer
RedisRaises(rd) == ~rd.up

\* CacheService.get
cache_get_call(cs, rd, t, key) ==
  IF cs.redis_client # None
  THEN IF RedisRaises(rd) THEN get_fallback(cs, t, key)
       ELSE [exc |-> "none", cs |-> cs,
             ret |-> IF key \in Live(rd, t) THEN Loads(rd.data[key].value) ELSE NoneNode]
  ELSE LET r == get_fallback(cs, t, key) IN
       IF r.exc = "none" THEN r ELSE get_fallback(r.cs, t, key)

\* CacheService.set
cache_set(cs, rd, t, key, value, ttl) ==
  IF cs.redis_client # None /\ Serializable(value) /\ ~RedisRaises(rd)
  THEN [exc |-> "none", ret |-> Bool(TRUE), cs |-> cs,
        rd |-> [rd EXCEPT !.data = Put(rd.data, key,
                  [value |-> Dumps(value),
                   expiry |-> t + (IF ttl # 0 THEN ttl ELSE CacheTtl)])]]
  ELSE LET r == set_fallback(cs, t, key, value, ttl) IN
       [exc |-> "none", ret |-> r.ret, cs |-> r.cs, rd |-> rd]

\* CacheService.delete
cache_delete(cs, rd, key) ==
  IF cs.redis_client # None /\ ~RedisRaises(rd)
  THEN [exc |-> "none", ret |-> Bool(TRUE), cs |-> cs,
        rd |-> [rd EXCEPT !.data = Without(rd.data, key)]]
  ELSE LET r == delete_fallback(cs, key) IN
       [exc |-> "none", ret |-> r.ret, cs |-> r.cs, rd |-> rd]

\* CacheService.exists
cache_exists(cs, rd, t, key) ==
  [exc |-> "none", cs |-> cs, rd |-> rd,
   ret |-> IF cs.redis_client # None /\ ~RedisRaises(rd)
           THEN Bool(key \in Live(rd, t))
           ELSE Bool(key \in DOMAIN cs.fallback_cache)]

\* CacheService.increment (amount = 1): INCR of the primary tier keeps the
\* expiry of the key, creates a missing key without expiry, and raises for
\* a value that is no integer; every exception is answered None
cache_increment(cs, rd, t, key) ==
  IF cs.redis_client # None
  THEN IF RedisRaises(rd) THEN [exc |-> "none", ret |-> NoneNode, cs |-> cs, rd |-> rd]
       ELSE IF key \notin Live(rd, t)
       THEN [exc |-> "none", ret |-> Num(1), cs |-> cs,
             rd |-> [rd EXCEPT !.data = Put(rd.data, key,
                                             [value |-> Dumps(Num(1)), expiry |-> -1])]]
       ELSE IF Loads(rd.data[key].value).shape # "int"
       THEN [exc |-> "none", ret |-> NoneNode, cs |-> cs, rd |-> rd]
       ELSE LET new_value == Num(Loads(rd.data[key].value).v + 1) IN
            [exc |-> "none", ret |-> new_value, cs |-> cs,
             rd |-> [rd EXCEPT !.data[key].value = Dumps(new_value)]]
  ELSE LET current == IF key \in DOMAIN cs.fallback_cache
                      THEN cs.fallback_cache[key] ELSE Num(0)
       IN IF current.shape # "int"
          THEN [exc |-> "none", ret |-> NoneNode, cs |-> cs, rd |-> rd]
          ELSE [exc |-> "none", ret |-> Num(current.v + 1), rd |-> rd,
                cs |-> [cs EXCEPT !.fallback_cache =
                                     Put(cs.fallback_cache, key, Num(current.v + 1))]]

\* CacheService.health_check
health_check(cs, rd) ==
  IF cs.redis_client # None /\ RedisRaises(rd) THEN Bool(FALSE) ELSE Bool(TRUE)

\* the same instance without a primary tier
Alone(cs) == [cs EXCEPT !.redis_client = None]

\* the record of a call: failed tells that a configured primary tier did
\* not answer during the call, alone is what the in-memory tier returns
\* for the call when it serves it by itself
Called(op, key, r, alone) ==
  [op |-> op, key |-> key, ret |-> r.ret, exc |-> r.exc, at |-> loop_time,
   failed |-> cache_service.redis_client # None /\ RedisRaises(redis), alone |-> alone]

\* CacheService.__init__: redis.from_url builds a client without
\* connecting when the redis package is importable, else there is none
CacheServiceInit(redis_available) ==
  /\ cache_service.redis_client = "unset"
  /\ cache_service' = [cache_service EXCEPT
                         !.redis_client = IF redis_available THEN "client" ELSE None]
  /\ UNCHANGED <<syncVars, parserVars, enrichVars, serviceVars, redis, loop_time, last, sets>>

Constructed == cache_service.redis_client # "unset"

\* the primary tier stops answering, or answers again
RedisFails ==
  /\ Constructed /\ cache_service.redis_client # None /\ redis.up
  /\ redis' = [redis EXCEPT !.up = FALSE]
  /\ UNCHANGED <<syncVars, parserVars, enrichVars, serviceVars, cache_service, loop_time, last, sets>>

RedisRecovers ==
  /\ Constructed /\ ~redis.up
  /\ redis' = [redis EXCEPT !.up = TRUE]
  /\ UNCHANGED <<syncVars, parserVars, enrichVars, serviceVars, cache_service, loop_time, last, sets>>

\* time passes; the primary tier drops the entries that reach their expiry
CacheTick ==
  /\ Constructed /\ loop_time < MaxLoopTime
  /\ loop_time' = loop_time + 1
  /\ redis' = [redis EXCEPT !.data = [k \in Live(redis, loop_time + 1) |-> redis.data[k]]]
  /\ UNCHANGED <<syncVars, parserVars, enrichVars, serviceVars, cache_service, last, sets>>

CacheGet(key) ==
  /\ Constructed
  /\ \E r \in { cache_get_call(cache_service, redis, loop_time, key) } :
     /\ cache_service' = r.cs
     /\ last' = Called("get", key, r, get_fallback(cache_service, loop_time, key).ret)
  /\ UNCHANGED <<syncVars, parserVars, enrichVars, serviceVars, redis, loop_time, sets>>

CacheSet(key, value, ttl) ==
  /\ Constructed
  /\ \E r \in { cache_set(cache_service, redis, loop_time, key, value, ttl) } :
     /\ cache_service' = r.cs
     /\ redis' = r.rd
     /\ last' = Called("set", key, r, Bool(TRUE))
  /\ sets' = Put(sets, key, [value |-> value, ttl |-> ttl, at |-> loop_time])
  /\ UNCHANGED <<syncVars, parserVars, enrichVars, serviceVars, loop_time>>

CacheDelete(key) ==
  /\ Constructed
  /\ \E r \in { cache_delete(cache_service, redis, key) } :
     /\ cache_service' = r.cs
     /\ redis' = r.rd
     /\ last' = Called("delete", key, r, delete_fallback(cache_service, key).ret)
  /\ sets' = Without(sets, key)
  /\ UNCHANGED <<syncVars, parserVars, enrichVars, serviceVars, loop_time>>

CacheExists(key) ==
  /\ Constructed
  /\ \E r \in { cache_exists(cache_service, redis, loop_time, key) } :
     last' = Called("exists", key, r, Bool(key \in DOMAIN cache_service.fallback_cache))
  /\ UNCHANGED <<syncVars, parserVars, enrichVars, serviceVars, cache_service, redis, loop_time, sets>>

CacheIncrement(key) ==
  /\ Constructed
  /\ \E r \in { cache_increment(cache_service, redis, loop_time, key) },
        a \in { cache_increment(Alone(cache_service), redis, loop_time, key) } :
        /\ r.ret.shape = "int" => r.ret.v <= MaxCount
        /\ cache_service' = r.cs
        /\ redis' = r.rd
        /\ last' = Called("increment", key, r, a.ret)
  /\ sets' = Without(sets, key)
  /\ UNCHANGED <<syncVars, parserVars, enrichVars, serviceVars, loop_time>>

CacheHealthCheck ==
  /\ Constructed
  /\ last' = Called("health_check", "none",
                    [ret |-> health_check(cache_service, redis), exc |-> "none"], Bool(TRUE))
  /\ UNCHANGED <<syncVars, parserVars, enrichVars, serviceVars, cache_service, redis, loop_time, sets>>

NextCache ==
  \/ \E b \in BOOLEAN : CacheServiceInit(b)
  \/ RedisFails
  \/ RedisRecovers
  \/ CacheTick
  \/ \E key \in CacheKeys : CacheGet(key)
  \/ \E key \in CacheKeys, value \in CacheValues, ttl \in Ttls : CacheSet(key, value, ttl)
  \/ \E key \in CacheKeys : CacheDelete(key)
  \/ \E key \in CacheKeys : CacheExists(key)
  \/ \E key \in CacheKeys : CacheIncrement(key)
  \/ CacheHealthCheck

SpecCache == Init /\ [][NextCache]_vars

\* set, delete and get of keys while the primary tier fails and recovers
NextTiers ==
  \/ \E b \in BOOLEAN : CacheServiceInit(b)
  \/ RedisFails
  \/ RedisRecovers
  \/ CacheTick
  \/ \E key \in CacheKeys : CacheGet(key)
  \/ \E key \in CacheKeys, value \in CacheValues, ttl \in Ttls : CacheSet(key, value, ttl)
  \/ \E key \in CacheKeys : CacheDelete(key)

SpecTiers == Init /\ [][NextTiers]_vars

\* ------------------------------------------- CompanyService over the cache
\* A request runs one CompanyService call; the calls interleave at their
\* awaits: the cache calls and the statements of the session.

\* the dict get_company caches: the columns of the row, created_at and
\* updated_at as datetime objects, which json.dumps rejects
CompanyDict(row) == [shape |-> "object", row |-> row]

\* ttl=3600 of get_company's cache.set, longer than nothing and given
CompanyTtl == 2

\* the row a first sync stores and the patch an enrichment applies
ServiceCompanies == { BlankCompany("u1", "n1") }
ServicePatches == { "phone" :> "555" }

IsWrite(q) == req[q].pc # "idle" /\ req[q].op \in {"update_company_enrichment", "create_company"}

CallGetCompany(r, uid) ==
  /\ Constructed /\ req[r].pc = "idle"
  /\ req' = [req EXCEPT ![r] = [IdleReq EXCEPT !.pc = "get", !.op = "get_company",
                                               !.uid = uid, !.phase = "only"]]
  /\ UNCHANGED <<syncVars, parserVars, enrichVars, cacheVars>>

CallUpdateCompanyEnrichment(r, uid, enrichment_data) ==
  /\ Constructed /\ req[r].pc = "idle"
  /\ req' = [req EXCEPT ![r] = [IdleReq EXCEPT !.pc = "get", !.op = "update_company_enrichment",
                                               !.uid = uid, !.phase = "first",
                                               !.data = enrichment_data]]
  /\ UNCHANGED <<syncVars, parserVars, enrichVars, cacheVars>>

CallCreateCompany(r, company_data) ==
  /\ Constructed /\ req[r].pc = "idle"
  /\ req' = [req EXCEPT ![r] = [IdleReq EXCEPT !.pc = "insert", !.op = "create_company",
                                               !.uid = company_data.uid,
                                               !.data = company_data]]
  /\ UNCHANGED <<syncVars, parserVars, enrichVars, cacheVars>>

\* where a get_company that returns goes on: the caller of the request, or
\* the UPDATE of update_company_enrichment after its first get_company
AfterGetCompany(rq, company) ==
  IF rq.phase = "first" THEN [rq EXCEPT !.pc = "update"]
  ELSE [rq EXCEPT !.pc = "idle", !.ret = company]

\* get_company: cache.get; a truthy cached dict is returned
GetCompanyCacheGet(r) ==
  /\ req[r].pc = "get"
  /\ LET c == cache_get_call(cache_service, redis, loop_time, req[r].uid) IN
     /\ cache_service' = c.cs
     /\ req' = [req EXCEPT ![r] = IF c.ret.shape = "object"
                                  THEN AfterGetCompany(req[r], {c.ret.row})
                                  ELSE [req[r] EXCEPT !.pc = "select"]]
  /\ UNCHANGED <<syncVars, parserVars, enrichVars, redis, loop_time, last, sets>>

\* get_company: the SELECT; no row raises CompanyNotFound, which no caller
\* within CompanyService catches here
GetCompanySelect(r) ==
  /\ req[r].pc = "select"
  /\ req' = [req EXCEPT ![r] =
               IF req[r].uid \notin DOMAIN company_table
               THEN [req[r] EXCEPT !.pc = "idle", !.exc = "CompanyNotFound"]
               ELSE [req[r] EXCEPT !.pc = "set", !.row = {company_table[req[r].uid]}]]
  /\ UNCHANGED <<syncVars, parserVars, enrichVars, cacheVars>>

\* get_company: cache.set of the dict built from the row read
GetCompanyCacheSet(r) ==
  /\ req[r].pc = "set"
  /\ LET c == cache_set(cache_service, redis, loop_time, req[r].uid,
                        CompanyDict(CHOOSE x \in req[r].row : TRUE), CompanyTtl) IN
     /\ cache_service' = c.cs
     /\ redis' = c.rd
  /\ req' = [req EXCEPT ![r] = AfterGetCompany(req[r], req[r].row)]
  /\ UNCHANGED <<syncVars, parserVars, enrichVars, loop_time, last, sets>>

\* update_company_enrichment: UPDATE ... WHERE uid and commit
UpdateCompanyEnrichmentCommit(r) ==
  /\ req[r].pc = "update"
  /\ company_table' = [u \in DOMAIN company_table |->
                         IF u = req[r].uid
                         THEN [f \in CompanyFields |->
                                 IF f \in DOMAIN req[r].data THEN req[r].data[f]
                                 ELSE company_table[u][f]]
                         ELSE company_table[u]]
  /\ req' = [req EXCEPT ![r].pc = "delete"]
  /\ UNCHANGED <<applied, sync_history, now, proc, parserVars, enrichVars, cacheVars>>

\* create_company: INSERT and commit; a stored uid raises
\* DuplicateCompanyError
CreateCompanyCommit(r) ==
  /\ req[r].pc = "insert"
  /\ IF req[r].uid \in DOMAIN company_table
     THEN /\ req' = [req EXCEPT ![r].pc = "idle", ![r].exc = "DuplicateCompanyError"]
          /\ UNCHANGED company_table
     ELSE /\ company_table' = (req[r].uid :> req[r].data) @@ company_table
          /\ req' = [req EXCEPT ![r].pc = "delete"]
  /\ UNCHANGED <<applied, sync_history, now, proc, parserVars, enrichVars, cacheVars>>

\* cache.delete after the commit; update_company_enrichment then returns
\* what a second get_company returns
WriteCacheDelete(r) ==
  /\ req[r].pc = "delete"
  /\ LET c == cache_delete(cache_service, redis, req[r].uid) IN
     /\ cache_service' = c.cs
     /\ redis' = c.rd
  /\ req' = [req EXCEPT ![r] =
               IF req[r].op = "create_company"
               THEN [req[r] EXCEPT !.pc = "idle", !.ret = Stored(company_table, req[r].uid)]
               ELSE [req[r] EXCEPT !.pc = "get", !.phase = "second"]]
  /\ UNCHANGED <<syncVars, parserVars, enrichVars, loop_time, last, sets>>

NextService ==
  \/ \E b \in BOOLEAN : CacheServiceInit(b)
  \/ \E r \in Reqs, uid \in {"u1"} : CallGetCompany(r, uid)
  \/ \E uid \in {"u1"}, d \in ServicePatches : CallUpdateCompanyEnrichment("r2", uid, d)
  \/ \E company_data \in ServiceCompanies : CallCreateCompany("r2", company_data)
  \/ \E r \in Reqs : GetCompanyCacheGet(r)
  \/ \E r \in Reqs : GetCompanySelect(r)
  \/ \E r \in Reqs : GetCompanyCacheSet(r)
  \/ \E r \in Reqs : UpdateCompanyEnrichmentCommit(r)
  \/ \E r \in Reqs : CreateCompanyCommit(r)
  \/ \E r \in Reqs : WriteCacheDelete(r)

SpecService == Init /\ [][NextService]_vars

\* the CompanyService calls while the primary tier fails and recovers
NextInvalidate ==
  \/ NextService
  \/ RedisFails
  \/ RedisRecovers

SpecInvalidate == Init /\ [][NextInvalidate]_vars

\* ------------------------------------------------- enrichment on first access
\* GET /companies/{uid} calls enrich_company_if_needed; the module keeps
\* _enrichment_cache for the life of the process. One clock unit is
\* CACHE_TTL hours.

\* is_cache_valid admitting an entry whose age has reached CACHE_TTL hours
is_cache_valid_inclusive(cache, t, uid) ==
  uid \in DOMAIN cache /\ t - cache[uid].timestamp <= CacheTtl

\* is_cache_valid: an entry exists and its age is below timedelta(hours=CACHE_TTL)
is_cache_valid(cache, t, uid) ==
  uid \in DOMAIN cache /\ t - cache[uid].timestamp < CacheTtl

\* get_cached_enrichment: the data of a valid entry, None (the empty set)
\* otherwise
get_cached_enrichment(cache, t, uid) ==
  IF is_cache_valid(cache, t, uid) THEN {cache[uid].data} ELSE {}

\* cleanup_old_cache: entries stamped before now - 2 * CACHE_TTL hours go
cleanup_old_cache(cache, t) ==
  [u \in {x \in DOMAIN cache : ~(cache[x].timestamp < t - CacheTtl * 2)} |-> cache[u]]

\* cache_enrichment: store (data, now), then cleanup_old_cache
cache_enrichment(cache, t, uid, enrichment_data) ==
  cleanup_old_cache(Put(cache, uid, [data |-> enrichment_data, timestamp |-> t]), t)

\* fetch_registry_data: None (the empty set) on 404, another status, a
\* timeout or any exception; otherwise the JSON of the response, here one
\* without anything map_registry_data picks up and one with a companyName
RegistryResults == { {}, {EmptyMap}, {"companyName" :> "n1"} }

\* map_registry_data on the responses of the model
map_registry_data(registry_data) ==
  IF "companyName" \in DOMAIN registry_data
  THEN "name" :> registry_data["companyName"]
  ELSE EmptyMap

\* CompanyService.update_company_enrichment(uid, enrichment_data), called on
\* the class: uid is bound to self and enrichment_data to uid, the third
\* parameter is missing, so the call raises TypeError before any statement
\* of the method runs
UnboundUpdate(table, uid, enrichment_data) ==
  [exc |-> "TypeError", ret |-> FALSE, table |-> table]

\* the try around the update: any exception sets update_success = True
UpdateSuccess(r) == IF r.exc # "none" THEN TRUE ELSE r.ret

\* enrich_company_if_needed up to its first await: a cached dict (never
\* empty, so truthy) is returned at once, otherwise fetch_registry_data is
\* called
EnrichCompanyIfNeeded(r, uid) ==
  /\ req[r].pc = "idle"
  /\ \E cached \in { get_cached_enrichment(enrichment_cache, datetime_now, uid) } :
       req' = [req EXCEPT ![r] =
                 IF cached # {} /\ (\A c \in cached : c # EmptyMap)
                 THEN [IdleReq EXCEPT !.op = "enrich_company_if_needed", !.uid = uid,
                                      !.phase = "cached", !.ret = cached]
                 ELSE [IdleReq EXCEPT !.op = "enrich_company_if_needed", !.uid = uid,
                                      !.pc = "fetch"]]
  /\ UNCHANGED <<syncVars, parserVars, cacheVars, enrichVars>>

\* enrich_company_if_needed from the return of fetch_registry_data on:
\* map, update, cache_enrichment and the response, without a further await
\* (the update call raises before it yields a coroutine)
EnrichAfterFetch(r, registry_data) ==
  /\ req[r].pc = "fetch"
  /\ \E enrichment_data \in { IF registry_data = {} THEN EmptyMap
                               ELSE map_registry_data(CHOOSE d \in registry_data : TRUE) } :
     \E u \in { UnboundUpdate(company_table, req[r].uid, enrichment_data) } :
       IF enrichment_data # EmptyMap /\ UpdateSuccess(u)
       THEN /\ company_table' = u.table
            /\ enrichment_cache' = cache_enrichment(enrichment_cache, datetime_now,
                                                    req[r].uid, enrichment_data)
            /\ req' = [req EXCEPT ![r].pc = "idle", ![r].phase = "enriched",
                                   ![r].ret = {enrichment_data}, ![r].exc = u.exc]
       ELSE /\ company_table' = u.table
            /\ enrichment_cache' = enrichment_cache
            /\ req' = [req EXCEPT ![r].pc = "idle", ![r].phase = "unavailable",
                                   ![r].exc = IF enrichment_data # EmptyMap THEN u.exc
                                              ELSE "none"]
  /\ UNCHANGED <<applied, sync_history, now, proc, parserVars, cacheVars, datetime_now>>

\* time passes in the API process
EnrichTick ==
  /\ datetime_now < MaxClock
  /\ datetime_now' = datetime_now + 1
  /\ UNCHANGED <<syncVars, parserVars, cacheVars, serviceVars, enrichment_cache>>

NextEnrich ==
  \/ EnrichTick
  \/ \E r \in Reqs, uid \in UIDs : EnrichCompanyIfNeeded(r, uid)
  \/ \E r \in Reqs, registry_data \in RegistryResults : EnrichAfterFetch(r, registry_data)

SpecEnrich == Init /\ [][NextEnrich]_vars

\* ------------------------------------------------------------------ claims

\* C1 (as claimed): a change with identifier and name applied to a store
\* that lacks the identifier is Created; applied again at once it is
\* Skipped and leaves the stored entity as the first application left it.
C1_MergeIdempotent ==
  \A k \in 1..Len(applied) :
    (applied[k].before = {} /\ Truthy(applied[k].company.uid) /\ Truthy(applied[k].company.name))
      => /\ Outcome(applied[k].ret, applied[k].is_new) = "Created"
         /\ applied[k].after # {}
         /\ (k < Len(applied) /\ applied[k + 1].company = applied[k].company)
              => /\ Outcome(applied[k + 1].ret, applied[k + 1].is_new) = "Skipped"
                 /\ applied[k + 1].after = applied[k].after

\* C2 (as claimed): a merge into an existing entity keeps every stored
\* field the change leaves null and stores every field the change supplies.
C2_NonDestructivePatch ==
  \A k \in 1..Len(applied) :
    applied[k].before # {} =>
      /\ applied[k].after # {}
      /\ \A old \in applied[k].before, new \in applied[k].after, f \in EnrichFields :
           /\ (old[f] # None /\ applied[k].company[f] = None) => new[f] = old[f]
           /\ applied[k].company[f] # None => new[f] = applied[k].company[f]

C4_RunSettlesItsRecord ==
  [][\A p \in Procs :
       (proc[p].pc = "update" /\ proc'[p].pc # "update")
         => sync_history'[proc[p].sync_id].status \in {"completed", "failed"}]_vars

C7_FailureRecorded ==
  [][\A p \in Procs :
       (proc[p].pc = "update" /\ proc[p].branch = "fail" /\ proc'[p].pc # "update")
         => /\ sync_history'[proc[p].sync_id].status = "failed"
            /\ sync_history'[proc[p].sync_id].error_message # None]_vars

C9_RecordLevelIsolation ==
  [][\A p \in Procs :
       (proc[p].pc = "update" /\ proc[p].branch = "data" /\ proc'[p].pc # "update")
         => /\ \A k \in 1..Len(proc[p].companies) :
                 proc[p].companies[k].ret = "True"
                   => proc[p].companies[k].c.uid \in DOMAIN company_table'
            /\ sync_history'[proc[p].sync_id].status = "completed"]_vars

C11_NoDataIsNotFailure ==
  [][\A p \in Procs :
       (/\ proc[p].pc = "update" /\ proc'[p].pc # "update"
        /\ ~get_resource_by_date(proc[p].date))
         => /\ sync_history'[proc[p].sync_id].status = "completed"
            /\ sync_history'[proc[p].sync_id].companies_processed = 0
            /\ \A i \in 1..Len(sync_history) :
                 sync_history'[i].status = "failed" => sync_history[i].status = "failed"]_vars

\* C12 (as claimed): for every payload the parser returns exactly one record
\* per deed node that carries both UIC and name, in payload order, and none
\* for a deed node lacking either.
C12_OneRecordPerNamedDeed ==
  LET carries(d) == /\ Contains(d, "$") /\ d["$"].shape = "dict"
                    /\ Truthy(Get(d["$"], "UIC")) /\ Truthy(Get(d["$"], "CompanyName"))
      named == SelectSeq(deed_nodes, carries)
  IN payload # NoneNode
       => /\ Len(parsed) = Len(named)
          /\ \A k \in 1..Len(named) : parsed[k].uid = Get(named[k]["$"], "UIC")

\* C13 (as claimed): a malformed node at any level only removes its own
\* contribution: every deed that yields a record when parsed alone has that
\* record in the result, whatever malformed node lies before or after it.
C13_MalformedNodeIsolated ==
  payload # NoneNode
    => \A k \in 1..Len(deed_nodes) :
         \A c \in { ParseCompanyChanges(Payload(<<deed_nodes[k]>>)) } :
           c # <<>> => \E j \in 1..Len(parsed) : parsed[j] = c[1]

\* C14 (as claimed): no extracted record has the redaction placeholder as
\* its phone, email or website.
C14_SentinelIsNull ==
  \A k \in 1..Len(parsed) :
    /\ parsed[k].phone # Sentinel
    /\ parsed[k].email # Sentinel
    /\ parsed[k].website # Sentinel

\* C15 (as claimed): a get of a key whose last set gave a ttl returns the
\* value set while less than ttl has elapsed since the set, and absent
\* (None) once ttl has elapsed, whichever tier serves the calls.
C15_CacheTtl ==
  (last.op = "get" /\ last.key \in DOMAIN sets /\ sets[last.key].ttl # 0)
    => IF last.at - sets[last.key].at < sets[last.key].ttl
       THEN last.exc = "none" /\ last.ret = sets[last.key].value
       ELSE last.exc = "none" /\ last.ret = NoneNode

\* C16 (as claimed): the in-memory tier never holds more entries than its
\* capacity.
C16_FallbackBounded ==
  Cardinality(DOMAIN cache_service.fallback_cache) <= FallbackCap

\* C17 (as claimed): a get, set, delete, exists or increment during which
\* the primary tier fails raises nothing and returns what the in-memory
\* tier alone returns for it.
C17_PrimaryFailureServedInMemory ==
  (last.failed /\ last.op \in {"get", "set", "delete", "exists", "increment"})
    => last.exc = "none" /\ last.ret = last.alone

\* C18 (as claimed): health_check answers healthy whenever a tier can serve
\* reads; the in-memory tier always can.
C18_HealthyWhileATierServes ==
  last.op = "health_check" => last.ret = Bool(TRUE)

\* C19 (as claimed): once every write has returned, a get_company served
\* from the cache returns the entity as the store holds it.
C19_CacheAdvisory ==
  [][\A r \in Reqs :
       (/\ req[r].pc = "get" /\ req[r].op = "get_company" /\ req'[r].pc = "idle"
        /\ \A q \in Reqs : ~IsWrite(q))
         => req'[r].ret = Stored(company_table, req[r].uid)]_vars

\* C20 (as claimed): whenever two sync invocations have each applied a
\* change for the same identifier, the store holds the entity of that
\* identifier, and no merge ends in DuplicateCompanyError.
C20_MergeNeverConflicts ==
  [][\A p \in Procs :
       (proc[p].pc = "merge" /\ proc'[p].i = proc[p].i + 1)
         => LET company == proc[p].companies[proc[p].i].c IN
            /\ UpdateSingleCompany(company_table, company,
                                   proc[p].companies[proc[p].i].is_new).exc
                 # "DuplicateCompanyError"
            /\ (\E q \in Procs \ {p} : \E k \in 1..Len(proc[q].companies) :
                  /\ proc[q].companies[k].c.uid = company.uid
                  /\ proc[q].companies[k].ret # "unset")
                 => company.uid \in DOMAIN company_table']_vars

\* C21: a merge of the sync path removes no stored entity and leaves every
\* stored entity under the identifier it had: the stored identifiers after
\* the merge include those before it.
C21_SyncNeverDeletes ==
  [][Len(applied') = Len(applied) + 1
       => \A u \in DOMAIN company_table :
            /\ u \in DOMAIN company_table'
            /\ company_table'[u].uid = company_table[u].uid]_vars

\* two entities are stored and a change for one of them, supplying a
\* phone the stored entity lacks, has gone through the merge
C21_Witness ==
  /\ Cardinality(DOMAIN company_table) = 2
  /\ applied # <<>>
  /\ applied[Len(applied)].before # {}
  /\ applied[Len(applied)].company.phone # None
  /\ \A old \in applied[Len(applied)].before : old.phone = None

C25_ImportRejectedAsAWhole ==
  [][\A file \in Uploads :
       ImportUpload("r1", file)
         => LET lacking == { k \in 1..Len(file.body) :
                               IF file.format = "json"
                               THEN \E j \in 1..Len(RequiredFields) :
                                      RequiredFields[j] \notin DOMAIN file.body[k]
                               ELSE Len(file.body[k]) < Len(RequiredFields) }
            IN lacking # {}
                 => /\ req'["r1"].ret = {ImportResponse(400, Cardinality(lacking))}
                    /\ company_table' = company_table]_vars

C28_SpecificDateAsDaily ==
  [][\A p \in Procs :
       /\ (/\ proc[p].pc = "idle" /\ proc'[p].kind = "specific"
           /\ proc'[p].date = DateOf(now))
            => ~is_date_synced(sync_history, DateOf(now))
       /\ (/\ proc[p].pc = "update" /\ proc[p].kind = "specific" /\ proc'[p].pc = "idle"
           /\ DateOf(sync_history[proc[p].sync_id].started_at) = proc[p].date)
            => LET kwargs == IF proc[p].date \notin get_available_dates THEN KwZero
                             ELSE IF proc[p].branch = "data"
                                  THEN KwCompleted(proc[p].companies)
                             ELSE IF proc[p].branch = "fail"
                                  THEN KwFailed("Failed to download data")
                             ELSE KwZero
                   daily == WithValues(sync_history[proc[p].sync_id], kwargs)
                   row == sync_history'[proc[p].sync_id]
               IN /\ row.status = daily.status
                  /\ row.companies_processed = daily.companies_processed
                  /\ row.companies_updated = daily.companies_updated
                  /\ row.companies_created = daily.companies_created]_vars


\* C29: whatever the primary tier does between the calls, a get of a key returns
\* the value of the latest set of that key while that set is younger than its own
\* ttl and than the default ttl, and returns None when the key was never set or
\* was deleted after its latest set.
C29_TwoTiersAsOneCache ==
  last.op = "get"
    => /\ last.exc = "none"
       /\ IF last.key \in DOMAIN sets
          THEN (/\ last.at - sets[last.key].at < CacheTtl
                /\ (sets[last.key].ttl # 0 => last.at - sets[last.key].at < sets[last.key].ttl))
                 => last.ret = sets[last.key].value
          ELSE last.ret = NoneNode


\* C30: when update_company_enrichment returns, the merge that applies a
\* patch to a stored entity, neither cache tier holds under the identifier
\* an entity other than the one the store holds after the update.
C30_UpdateInvalidatesCache ==
  [][\A r \in Reqs :
       (/\ req[r].op = "update_company_enrichment" /\ req[r].pc # "idle"
        /\ req'[r].pc = "idle" /\ req'[r].exc = "none")
         => /\ req[r].uid \in DOMAIN cache_service'.fallback_cache
                 => {cache_service'.fallback_cache[req[r].uid].row}
                      = Stored(company_table', req[r].uid)
            /\ req[r].uid \in DOMAIN redis'.data
                 => {Loads(redis'.data[req[r].uid].value).row}
                      = Stored(company_table', req[r].uid)]_vars


\* C31: a change with identifier and name for an identifier the store lacks
\* is Created and stores one entity of that identifier, with the placeholder
\* "not specified" for a manager or address the change lacks and every
\* other field as the change has it (None where it is missing); a change
\* without identifier or name stores nothing.
C31_CreateOnFirstSight ==
  \A k \in 1..Len(applied) :
    applied[k].before = {} =>
      IF Truthy(applied[k].company.uid) /\ Truthy(applied[k].company.name)
      THEN /\ Outcome(applied[k].ret, applied[k].is_new) = "Created"
           /\ \E new \in applied[k].after :
                /\ applied[k].after = {new}
                /\ \A f \in CompanyFields :
                     new[f] = IF f \in {"manager", "address"} /\ applied[k].company[f] = None
                              THEN "not specified"
                              ELSE applied[k].company[f]
      ELSE applied[k].after = {}


\* C32: when two changes for one identifier are applied one after the other,
\* as update_database applies the changes of a payload, then after the later
\* one the store holds, in every field both supply, the value of the later
\* change.
C32_LaterChangeWins ==
  \A k \in 1..Len(applied) : \A j \in (k + 1)..Len(applied) :
    applied[j].company.uid = applied[k].company.uid
      => \A f \in EnrichFields :
           (applied[k].company[f] # None /\ applied[j].company[f] # None)
             => /\ applied[j].after # {}
                /\ \A new \in applied[j].after : new[f] = applied[j].company[f]


\* C33: for every deed of the payload that yields a record and whose
\* sub-deeds are dicts with lists of named manager entries, the manager of
\* the record is the name of the first manager entry, in payload order
\* across the sub-deeds, that is not blank and not the redaction
\* placeholder, and None when the deed has no such entry.
C33_FirstManagerWins ==
  \A k \in 1..Len(deed_nodes) :
    LET deed == deed_nodes[k]
        entries(subdeed) == IF Contains(subdeed, "Managers")
                            THEN subdeed["Managers"].items ELSE <<>>
        wellformed ==
          /\ Contains(deed, "SubDeed") /\ deed["SubDeed"].shape = "list"
          /\ \A i \in 1..Len(deed["SubDeed"].items) :
               LET subdeed == deed["SubDeed"].items[i] IN
               /\ subdeed.shape = "dict"
               /\ Contains(subdeed, "Managers") => subdeed["Managers"].shape = "list"
               /\ \A j \in 1..Len(entries(subdeed)) :
                    /\ Contains(entries(subdeed)[j], "_")
                    /\ entries(subdeed)[j]["_"].shape = "str"
        named(e) == Strip(e["_"].v) # "" /\ Strip(e["_"].v) # Sentinel
    IN \A c \in { ExtractCompanyData(deed) } :
         (c # <<>> /\ wellformed)
           => \A all \in { Flatten([i \in 1..Len(deed["SubDeed"].items) |->
                                      entries(deed["SubDeed"].items[i])]) } :
                \A good \in { SelectSeq(all, named) } :
                  c[1].manager = IF good = <<>> THEN None ELSE Strip(good[1]["_"].v)


\* C34: the record of a deed holds, as legal form and as status, the label
\* the lookup table gives for the deed's code (the tables of
\* map_registry_data, codes 10 to 50 and 1 to 3), and None for a code the
\* table lacks or a deed without the attribute; the record is produced
\* either way.
C34_CodesTranslated ==
  LET legal_form_map == ("10" :> "EOOD") @@ ("20" :> "OOD") @@ ("30" :> "AD")
                        @@ ("40" :> "KD") @@ ("50" :> "KDA")
      status_map == ("1" :> "active") @@ ("2" :> "inactive") @@ ("3" :> "closing")
      label(table, code) == IF code \in DOMAIN table THEN table[code] ELSE None
  IN \A k \in 1..Len(deed_nodes) :
       LET deed == deed_nodes[k] IN
       (/\ Contains(deed, "$") /\ deed["$"].shape = "dict"
        /\ Truthy(Get(deed["$"], "UIC")) /\ Truthy(Get(deed["$"], "CompanyName"))
        /\ Contains(deed, "SubDeed") /\ deed["SubDeed"].shape = "list")
         => \A c \in { ExtractCompanyData(deed) } :
              /\ c # <<>>
              /\ c[1].legal_form = label(legal_form_map, Get(deed["$"], "LegalForm"))
              /\ c[1].status = label(status_map, Get(deed["$"], "DeedStatus"))


C36_EnrichmentWindow ==
  [][\A r \in Reqs :
       (req[r].pc = "idle" /\ req'[r] # req[r] /\ req'[r].op = "enrich_company_if_needed")
         => IF /\ req'[r].uid \in DOMAIN enrichment_cache
               /\ datetime_now - enrichment_cache[req'[r].uid].timestamp < CacheTtl
            THEN /\ req'[r].pc = "idle" /\ req'[r].phase = "cached"
                 /\ req'[r].ret = {enrichment_cache[req'[r].uid].data}
            ELSE req'[r].pc = "fetch"]_vars

\* one request was answered from the entry of u1, and a later request for
\* u1, made when the entry had reached the TTL, is waiting for its fetch
C36_Witness ==
  \E r \in Reqs : \E q \in Reqs \ {r} :
    /\ req[r].phase = "cached" /\ req[r].uid = "u1"
    /\ req[q].pc = "fetch" /\ req[q].uid = "u1"
    /\ "u1" \in DOMAIN enrichment_cache
    /\ datetime_now - enrichment_cache["u1"].timestamp >= CacheTtl


\* C39: enrich_company_if_needed puts an entry for the identifier into the
\* enrichment cache only when its store update has gone through: the call
\* that caches has raised nothing in the update and the store holds the
\* enrichment under the identifier; after an update that raised the cache
\* is as it was, so that the next call for the identifier fetches again.
C39_CachedOnlyAfterUpdate ==
  [][\A r \in Reqs :
       (req[r].pc = "fetch" /\ req'[r].pc = "idle")
         => /\ enrichment_cache' # enrichment_cache
                 => /\ req'[r].exc = "none"
                    /\ req[r].uid \in DOMAIN company_table'
                    /\ \A d \in req'[r].ret : \A f \in DOMAIN d :
                         company_table'[req[r].uid][f] = d[f]
            /\ req'[r].exc # "none"
                 => /\ enrichment_cache' = enrichment_cache
                    /\ ~is_cache_valid(enrichment_cache', datetime_now, req[r].uid)]_vars


C40_FallbackMapsAgree ==
  /\ DOMAIN cache_service.fallback_cache = DOMAIN cache_service.fallback_timestamps
  /\ (last.op = "exists" /\ last.at = loop_time)
       => (last.alone.v
             <=> get_fallback(cache_service, loop_time, last.key).ret # NoneNode)

====
